---- MODULE Spec2Model ----
(***************************************************************************)
(* Order-tracking engine of slackiveroo.                                   *)
(*                                                                         *)
(* app.py: the registry orders_being_tracked, the handler on_slack_event   *)
(* and the asyncio tasks start_tracking / perform_tracking it makes.       *)
(* asyncio is cooperative: the code between two awaits runs atomically, so *)
(* every action below is the code from one suspension point (await of      *)
(* network I/O or of a sleep) to the next.                                 *)
(*                                                                         *)
(* tracker.py, slack.py: the Tracker object (channels, completed,          *)
(* current_state), its run coroutine and its add_channel coroutines, and   *)
(* the delivery through slack.post_message / Channel.post_message.         *)
(* app.py does not import tracker.py: a behaviour is a run of the app.py   *)
(* event loop, or the life of one Tracker driven by its caller.            *)
(* Tracker.format_slack_status_update is a pure function, applied to any   *)
(* document under FormatSpec.                                              *)
(***************************************************************************)
EXTENDS Integers, Sequences, FiniteSets, TLC

\* ------------------------------------------------------------ bounds
\* number of start_tracking tasks spawned by on_slack_event
MaxTasks == 3
\* number of status fetches one tracker issues before the model stops it
MaxPolls == 3
\* number of status fetches issued on one Tracker before the model stops it
MaxRunPolls == 2
\* number of channels given to Tracker.__init__
MaxInitChannels == 2
\* number of add_channel calls on the tracker
MaxAdds == 1

\* ------------------------------------------------------------ domains
None == "None"
Tasks == 1..MaxTasks
\* the "roo.it" sharing urls of the links shared
Urls == {"roo.it/a"}
\* evt['channel'] of the events
SlackChannels == {"D1", "D2"}
\* data.attributes.ui_status ; COMPLETED and FAILED stop the tracking
Statuses == {"IN_PROGRESS", "COMPLETED", "FAILED"}
TerminalStatuses == {"COMPLETED", "FAILED"}
\* data.attributes.message
Messages == {"Preparing", "Delivered"}
\* the status documents of the Deliveroo API the polls may return: the same
\* status with either message, and each terminal status, one with the
\* message of an earlier document and one with a new message
States ==
    {[ui_status |-> "IN_PROGRESS", message |-> "Preparing"],
     [ui_status |-> "IN_PROGRESS", message |-> "Delivered"],
     [ui_status |-> "COMPLETED", message |-> "Delivered"],
     [ui_status |-> "FAILED", message |-> "Preparing"]}
\* no document fetched yet (Python None)
NoState == [ui_status |-> None, message |-> None]
\* (team_id, channel_id) of the Channel objects handed to the tracker
ChannelIds == {<<"T1", "C1">>, <<"T2", "C1">>}
AddCalls == 1..MaxAdds
\* what chat.postMessage can answer to Channel.post_message, or the failure
\* of what precedes it
PostOutcomes == {"ok", "not_in_channel", "post_error", "token_error"}

VARIABLES
    orders_being_tracked, \* app.py:13  url -> set of slack channels
    task,                 \* the start_tracking coroutines: position, arguments, locals
    \* history of the run (not program state)
    owner,                \* url -> the task that inserted the registry entry
    h,                    \* what each running tracker task has done so far
    err,                  \* the exception that ended perform_tracking in each task
    response,             \* what on_slack_event returned for the event of each task
    \* tracker.py
    tracker,              \* the Tracker object, once constructed
    run,                  \* the Tracker.run coroutine
    add,                  \* the Tracker.add_channel coroutines
    th,                   \* history of the tracker (not program state)
    fmt                   \* a call of Tracker.format_slack_status_update

appvars == <<orders_being_tracked, task, owner, h, err, response>>
trkvars == <<tracker, run, add, th>>
vars == <<appvars, trkvars, fmt>>

\* ------------------------------------------------------------ helpers
\* set.add replaced by an assignment: the new channel replaces the others
SetAddReplaces(set, x) == {x}

\* set.add(x), app.py line 123
SetAdd(set, x) == set \cup {x}

\* dict.pop(k) / dict[k] = v on a dict modelled as a function
DictPop(d, k) == [x \in DOMAIN d \ {k} |-> d[x]]
DictSet(d, k, v) == [x \in DOMAIN d \cup {k} |-> IF x = k THEN v ELSE d[x]]

\* a terminal status is among the documents pl
HasTerminal(pl) == \E i \in 1..Len(pl) : pl[i].ui_status \in TerminalStatuses

\* A start_tracking coroutine not yet made: pc is its suspension point,
\* rooit_url and slack_channel its arguments, last_msg and state the locals
\* of perform_tracking, it_used / it_todo the set iterator of line 107 (size
\* of the set when the iterator was made, elements not yet yielded) and chan
\* the loop variable of line 107
NewTask ==
    [pc |-> "new", rooit_url |-> None, slack_channel |-> None,
     last_msg |-> None, state |-> NoState, it_used |-> 0, it_todo |-> {},
     chan |-> None]

\* History of a tracker task, kept while it runs: channels of the mentions
\* it served, documents fetched, fetches issued, get_tracking_url calls,
\* delivery rounds begun, members of the set when the last round began,
\* channels the last round has posted to, channel where a post of the last
\* round failed, channels merged after a poll and
\* not posted to since, channels merged after a terminal status was seen
NoHistory ==
    [mentioned |-> {}, polled |-> <<>>, fetches |-> 0, resolves |-> 0,
     rounds |-> 0, round_dests |-> {}, round_got |-> {}, round_failed |-> None,
     unserved |-> {}, merged_late |-> {}]

\* ------------------------------------------------------------ tracker.py state
\* slack.Channel.__init__
Channel(id) == [team_id |-> id[1], channel_id |-> id[2], token |-> None]

\* slack.Channel.__eq__
ChannelEq(a, b) == <<a.team_id, a.channel_id>> = <<b.team_id, b.channel_id>>

ChannelId(c) == <<c.team_id, c.channel_id>>

\* the elements of a sequence, and the number of times x is one of them
Range(seq) == {seq[i] : i \in 1..Len(seq)}
Count(x, seq) == Cardinality({i \in 1..Len(seq) : seq[i] = x})
ChannelIdsOf(chs) == [i \in 1..Len(chs) |-> ChannelId(chs[i])]

\* No Tracker constructed yet; the fields are those of Tracker.__init__
NoTracker ==
    [made |-> FALSE, channels |-> <<>>, completed |-> FALSE,
     current_state |-> NoState]

\* The run coroutine: pc its suspension point, last_msg its local, idx the
\* position of the list iterator of slack.post_message (line 120).  The
\* depth of the recursion of Channel.post_message (line 77) has no bound in
\* the code and no effect on what it does: it is not part of the state
NoRun == [pc |-> "idle", last_msg |-> None, idx |-> 0]

\* An add_channel coroutine: idx is the position in tracker.channels of the
\* Channel object it appended, state the document it formatted (line 56)
\* and doc the ordinal of that document among the documents fetched
NoAdd == [pc |-> "new", idx |-> 0, state |-> NoState, doc |-> 0]

\* History of the tracker: constructor arguments, ids given to add_channel,
\* documents fetched by the current run call, fetches issued (all run
\* calls), whether a terminal status was ever fetched, delivery rounds begun
\* by the current run call, length of the list when the last round began,
\* positions the last round has posted to, position where a post of the last
\* round failed, positions that got the status from add_channel, the
\* exception that ended run, the number of documents fetched so far (the
\* ordinal of current_state), the add_channel calls made (call, id given,
\* whether an equal channel was in the list, position appended at or 0), and
\* for each position of the list the messages posted to it in order (ordinal
\* of the document, and the add_channel call that posted it or 0 for a round)
NoTrackerHistory ==
    [init |-> <<>>, added |-> {}, polled |-> <<>>, fetches |-> 0,
     terminal_seen |-> FALSE, rounds |-> 0, round_len |-> 0, round_got |-> {},
     round_failed |-> 0, caught |-> {}, err |-> None,
     cur |-> 0, adds |-> <<>>, delivered |-> <<>>]

\* ------------------------------------------------------------ formatter
\* data.attributes of a Deliveroo status document: eta_message is a key the
\* API leaves out once the order is there
Etas == {"10 min", "2 min"}
Attributes ==
    [ui_status : Statuses, message : Messages]
        \cup [ui_status : Statuses, message : Messages, eta_message : Etas]

\* included[0] of the document: its type and the attributes the formatter
\* reads
Included ==
    [type : {"order", "rider"},
     restaurant_name : {"Pizza", "Sushi"},
     sharing_short_url : {"roo.it/a", "roo.it/b"}]

DeliverooStates == [attributes : Attributes, included : Included]

\* the return value of format_slack_status_update: text is the first line,
\* block the lines of the mrkdwn text of the section block; a line is the
\* sequence of the pieces the % operator joins
NoFormat == [text |-> <<>>, block |-> <<>>]

\* format_slack_status_update with the test of eta_message before the test
\* of FAILED
format_eta_first(deliveroo_state) ==
    LET order == deliveroo_state.included
        attributes == deliveroo_state.attributes
        lines ==
            IF "eta_message" \notin DOMAIN attributes
            THEN << <<"*", order.restaurant_name,
                      "* is here, @hungry people :bowl_with_spoon: !">> >>
            ELSE IF attributes.ui_status = "FAILED"
            THEN << <<"@here :rotating_light: The order from *",
                      order.restaurant_name, "* has *FAILED* _(",
                      attributes.message, ")_">>,
                    <<order.sharing_short_url>> >>
            ELSE << <<"*", order.restaurant_name, "*: ", attributes.message>>,
                    <<"*ETA*: ", attributes.eta_message>>,
                    <<order.sharing_short_url>> >>
    IN [text |-> lines[1], block |-> lines]

\* Tracker.format_slack_status_update, lines 65-93 (after the assert of
\* line 63); none of the values holds a newline
format_slack_status_update(deliveroo_state) ==
    LET order == deliveroo_state.included
        attributes == deliveroo_state.attributes
        lines ==
            IF attributes.ui_status = "FAILED"
            THEN << <<"@here :rotating_light: The order from *",
                      order.restaurant_name, "* has *FAILED* _(",
                      attributes.message, ")_">>,
                    <<order.sharing_short_url>> >>
            ELSE IF "eta_message" \notin DOMAIN attributes
            THEN << <<"*", order.restaurant_name,
                      "* is here, @hungry people :bowl_with_spoon: !">> >>
            ELSE << <<"*", order.restaurant_name, "*: ", attributes.message>>,
                    <<"*ETA*: ", attributes.eta_message>>,
                    <<order.sharing_short_url>> >>
    IN [text |-> lines[1], block |-> lines]

\* ------------------------------------------------------------ initial state
InitProgram ==
    /\ orders_being_tracked = <<>>
    /\ task = [t \in Tasks |-> NewTask]
    /\ owner = <<>>
    /\ h = [t \in Tasks |-> NoHistory]
    /\ err = [t \in Tasks |-> None]
    /\ response = [t \in Tasks |-> None]
    /\ tracker = NoTracker
    /\ run = NoRun
    /\ add = [a \in AddCalls |-> NoAdd]
    /\ th = NoTrackerHistory

Init ==
    /\ InitProgram
    /\ fmt = [pc |-> "idle", doc |-> {}, out |-> NoFormat]

\* app.py and tracker.py are separate programs: a step of the app.py event
\* loop happens in a run where no Tracker was made, and a step of a Tracker
\* in a run where no start_tracking task was started
InApp == ~tracker.made /\ UNCHANGED <<trkvars, fmt>>
InTracker ==
    (\A t \in Tasks : task[t].pc = "new") /\ UNCHANGED <<appvars, fmt>>

\* ------------------------------------------------------------ app.py
\* The task stays suspended in perform_tracking, with locals nt
Stay(t, nt, nh) ==
    /\ task' = [task EXCEPT ![t] = nt]
    /\ h' = [h EXCEPT ![t] = nh]
    /\ UNCHANGED <<orders_being_tracked, owner>>

\* Deregister without the pop: the task ends and leaves its entry
DeregisterKeepsEntry(t, e) ==
    /\ task' = [task EXCEPT ![t] = [NewTask EXCEPT !.pc = "done"]]
    /\ h' = [h EXCEPT ![t] = NoHistory]
    /\ err' = [err EXCEPT ![t] = e]
    /\ UNCHANGED <<orders_being_tracked, owner>>

\* start_tracking, line 133: the pop that ends the task, e being the
\* exception perform_tracking ended with; the locals of the coroutine are
\* gone.  dict.pop(key) has no default: it raises KeyError when the key has
\* no entry, and removes the entry whoever inserted it.
Deregister(t, e) ==
    /\ task' = [task EXCEPT ![t] = [NewTask EXCEPT !.pc = "done"]]
    /\ h' = [h EXCEPT ![t] = NoHistory]
    /\ IF task[t].rooit_url \in DOMAIN orders_being_tracked
       THEN /\ orders_being_tracked' =
                  DictPop(orders_being_tracked, task[t].rooit_url)
            /\ owner' = DictPop(owner, task[t].rooit_url)
            /\ err' = [err EXCEPT ![t] = e]
       ELSE /\ err' = [err EXCEPT ![t] = "KeyError"]
            /\ UNCHANGED <<orders_being_tracked, owner>>

\* LeaveSession without the try/except of start_tracking: an exception of
\* perform_tracking ends the task before line 133
LeaveSessionUncaught(t, nt, nh, e) ==
    IF e = None
    THEN \/ /\ Stay(t, [nt EXCEPT !.pc = "closing"], nh)
            /\ err' = [err EXCEPT ![t] = e]
         \/ Deregister(t, e)
    ELSE /\ task' = [task EXCEPT ![t] = [NewTask EXCEPT !.pc = "done"]]
         /\ h' = [h EXCEPT ![t] = NoHistory]
         /\ err' = [err EXCEPT ![t] = e]
         /\ UNCHANGED <<orders_being_tracked, owner>>

\* Leaving the "async with get_session()" block of perform_tracking, by break
\* (e = None) or by exception e: __aexit__ awaits session.close(), which
\* suspends the task or not depending on the aiohttp release; then
\* lines 130-133 run.
LeaveSession(t, nt, nh, e) ==
    \/ /\ Stay(t, [nt EXCEPT !.pc = "closing"], nh)
       /\ err' = [err EXCEPT ![t] = e]
    \/ Deregister(t, e)

\* OnSlackEvent with "await f" in the place of ensure_future(f): the
\* coroutine is started, and the response is not returned before it ends
OnSlackEventAwaits(t, url, ch) ==
    /\ InApp
    /\ task[t].pc = "new"
    /\ \A u \in Tasks : u < t => task[u].pc # "new"
    /\ task' = [task EXCEPT ![t] =
          [@ EXCEPT !.pc = "scheduled", !.rooit_url = url, !.slack_channel = ch]]
    /\ UNCHANGED <<orders_being_tracked, owner, h, err, response>>

\* on_slack_event, lines 172-192, for a link_shared event with one roo.it
\* link, from the return of request.json(): ensure_future makes the task of
\* start_tracking without running it, and the response is returned
OnSlackEvent(t, url, ch) ==
    /\ InApp
    /\ task[t].pc = "new"
    /\ \A u \in Tasks : u < t => task[u].pc # "new"
    /\ task' = [task EXCEPT ![t] =
          [@ EXCEPT !.pc = "scheduled", !.rooit_url = url, !.slack_channel = ch]]
    /\ response' = [response EXCEPT ![t] = ""]
    /\ UNCHANGED <<orders_being_tracked, owner, h, err>>

\* StartTracking without the membership test of line 122: every mention
\* installs its own set and tracks
StartTrackingNoTest(t, url, ch) ==
    /\ InApp
    /\ UNCHANGED response
    /\ task[t].pc = "scheduled"
    /\ \A u \in Tasks : u < t => task[u].pc \notin {"new", "scheduled"}
    /\ url = task[t].rooit_url
    /\ ch = task[t].slack_channel
    /\ orders_being_tracked' = DictSet(orders_being_tracked, url, {ch})
    /\ owner' = DictSet(owner, url, t)
    /\ task' = [task EXCEPT ![t] =
          [@ EXCEPT !.pc = "resolving", !.rooit_url = url, !.slack_channel = ch]]
    /\ h' = [h EXCEPT ![t] = [@ EXCEPT !.mentioned = {ch}, !.resolves = 1]]
    /\ UNCHANGED err

\* start_tracking, lines 121-127, up to the first await of perform_tracking
\* (session.get(rooit_url) in get_tracking_url).  No await separates the
\* membership test from the insertion.  The event loop runs the first step
\* of the tasks in the order ensure_future made them.
StartTracking(t, url, ch) ==
    /\ InApp
    /\ UNCHANGED response
    /\ task[t].pc = "scheduled"
    /\ \A u \in Tasks : u < t => task[u].pc \notin {"new", "scheduled"}
    /\ url = task[t].rooit_url
    /\ ch = task[t].slack_channel
    /\ IF url \in DOMAIN orders_being_tracked
       THEN LET tr == owner[url] IN
            /\ orders_being_tracked' =
                  [orders_being_tracked EXCEPT ![url] = SetAdd(@, ch)]
            /\ task' = [task EXCEPT ![t] = [NewTask EXCEPT !.pc = "done"]]
            /\ h' = [h EXCEPT
                  ![tr].mentioned = @ \cup {ch},
                  ![tr].unserved =
                      IF ch \notin orders_being_tracked[url] /\ h[tr].polled # <<>>
                      THEN @ \cup {ch} ELSE @,
                  ![tr].merged_late =
                      IF HasTerminal(h[tr].polled) THEN @ \cup {ch} ELSE @]
            /\ UNCHANGED owner
       ELSE /\ orders_being_tracked' = DictSet(orders_being_tracked, url, {ch})
            /\ owner' = DictSet(owner, url, t)
            /\ task' = [task EXCEPT ![t] =
                  [@ EXCEPT !.pc = "resolving", !.rooit_url = url,
                            !.slack_channel = ch]]
            /\ h' = [h EXCEPT ![t] =
                  [@ EXCEPT !.mentioned = {ch}, !.resolves = 1]]
    /\ UNCHANGED err

\* perform_tracking, lines 94-98: get_tracking_url returns or raises
\* (network error, assert page.status == 200, no match of the frontend url)
Resolve(t, ok) ==
    /\ InApp
    /\ UNCHANGED response
    /\ task[t].pc = "resolving"
    /\ IF ok
       THEN /\ Stay(t, [task[t] EXCEPT !.pc = "fetching", !.last_msg = None],
                    [h[t] EXCEPT !.fetches = @ + 1])
            /\ UNCHANGED err
       ELSE LeaveSession(t, task[t], h[t], "resolve")

\* perform_tracking, lines 98-100: the fetch raises (network error, or
\* assert page.status == 200)
FetchFails(t) ==
    /\ InApp
    /\ UNCHANGED response
    /\ task[t].pc = "fetching"
    /\ LeaveSession(t, task[t], h[t], "fetch")

\* EndIteration without the break of line 115
EndIterationNoBreak(t, nt, nh) ==
    /\ Stay(t, [nt EXCEPT !.pc = "sleeping"], nh)
    /\ UNCHANGED err

\* perform_tracking, lines 112-118: the end of one loop iteration
EndIteration(t, nt, nh) ==
    IF nt.state.ui_status \in TerminalStatuses
    THEN LeaveSession(t, nt, nh, None)
    ELSE /\ Stay(t, [nt EXCEPT !.pc = "sleeping"], nh)
         /\ UNCHANGED err

\* MessageChanged with last_msg never updated (line 110 left out)
MessageChangedSinceStart(msg, last) == msg # None

\* perform_tracking, line 106 (Tracker.run, line 113): a status update is due
MessageChanged(msg, last) == msg # last

\* perform_tracking, lines 98-108 and 112-118: the fetch returns document st
Fetch(t, st) ==
    /\ InApp
    /\ UNCHANGED response
    /\ task[t].pc = "fetching"
    /\ LET nh == [h[t] EXCEPT !.polled = Append(@, st)]
           members == orders_being_tracked[task[t].rooit_url]
       IN
       IF MessageChanged(st.message, task[t].last_msg)
       THEN \* line 107: iter(set), first next(), then await the post
            \E c \in members :
                /\ Stay(t, [task[t] EXCEPT !.pc = "posting", !.state = st,
                                           !.it_used = Cardinality(members),
                                           !.it_todo = members \ {c},
                                           !.chan = c],
                        [nh EXCEPT !.rounds = @ + 1, !.round_dests = members,
                                   !.round_got = {}, !.round_failed = None])
                /\ UNCHANGED err
       ELSE EndIteration(t, [task[t] EXCEPT !.state = st], nh)

\* post_slack_status_update, lines 75-85, raises (network error, or
\* assert posted.status == 200): the exception leaves perform_tracking
PostFails(t) ==
    /\ InApp
    /\ UNCHANGED response
    /\ task[t].pc = "posting"
    /\ LeaveSession(t, task[t], [h[t] EXCEPT !.round_failed = task[t].chan],
                    "post")

\* post_slack_status_update returns; lines 107-118: the next() of the set
\* iterator raises RuntimeError when the set changed size, ends the loop when
\* exhausted, and yields the next channel otherwise
Post(t) ==
    /\ InApp
    /\ UNCHANGED response
    /\ task[t].pc = "posting"
    /\ LET nh == [h[t] EXCEPT !.round_got = @ \cup {task[t].chan},
                              !.unserved = @ \ {task[t].chan}]
       IN
       IF Cardinality(orders_being_tracked[task[t].rooit_url]) # task[t].it_used
       THEN LeaveSession(t, task[t], nh, "iteration")
       ELSE IF task[t].it_todo = {}
       THEN EndIteration(t, [task[t] EXCEPT !.last_msg = task[t].state.message],
                         nh)
       ELSE \E c \in task[t].it_todo :
               /\ Stay(t, [task[t] EXCEPT !.chan = c, !.it_todo = @ \ {c}], nh)
               /\ UNCHANGED err

\* perform_tracking, line 118 then line 98: the sleep ends, the next fetch
\* is issued
Sleep(t) ==
    /\ InApp
    /\ UNCHANGED response
    /\ task[t].pc = "sleeping"
    /\ h[t].fetches < MaxPolls
    /\ Stay(t, [task[t] EXCEPT !.pc = "fetching"],
            [h[t] EXCEPT !.fetches = @ + 1])
    /\ UNCHANGED err

\* Close with the pop of line 133 inside the except clause: a tracker that
\* ended without exception leaves its entry
CloseNoPop(t) ==
    /\ InApp
    /\ UNCHANGED response
    /\ task[t].pc = "closing"
    /\ IF err[t] = None
       THEN DeregisterKeepsEntry(t, None)
       ELSE Deregister(t, err[t])

\* session.close() returns; start_tracking lines 130-133
Close(t) ==
    /\ InApp
    /\ UNCHANGED response
    /\ task[t].pc = "closing"
    /\ Deregister(t, err[t])

\* ------------------------------------------------------------ tracker.py
\* Tracker.__init__, lines 17-21
TrackerInit(ids) ==
    /\ InTracker
    /\ ~tracker.made
    /\ tracker' = [made |-> TRUE,
                   channels |-> [i \in 1..Len(ids) |-> Channel(ids[i])],
                   completed |-> FALSE, current_state |-> NoState]
    /\ th' = [th EXCEPT !.init = ids,
                        !.delivered = [i \in 1..Len(ids) |-> <<>>]]
    /\ UNCHANGED <<run, add>>

\* Channel.get_token, lines 32-38, as seen from Channel.post_message: the
\* token is stored in the Channel object at position i unless redis failed
WithToken(chs, i, outcome) ==
    IF outcome = "token_error" THEN chs ELSE [chs EXCEPT ![i].token = "xoxb"]

\* Tracker.run, lines 119-126: the end of one loop iteration, nr being the
\* coroutine with last_msg as the iteration leaves it
EndRunIteration(nr, chs, st, nth) ==
    /\ run' = [nr EXCEPT !.pc = IF st.ui_status \in TerminalStatuses
                                THEN "returned" ELSE "sleeping"]
    /\ tracker' = [tracker EXCEPT
          !.channels = chs,
          !.current_state = st,
          !.completed = IF st.ui_status \in TerminalStatuses THEN TRUE ELSE @]
    /\ th' = nth

\* Tracker.run is called, lines 104-108: with completed set the loop is
\* not entered; otherwise the first fetch is issued.  The base class reads
\* self.session, which nothing in tracker.py assigns: the caller provides it
\* (or the fetch raises AttributeError, see GetOrderStatusRaises).
\* The caller may call run again once run has returned; a tracker whose run
\* raised is dropped, as start_tracking does with perform_tracking
\* (app.py, lines 128-133).
Run ==
    /\ InTracker
    /\ tracker.made
    /\ run.pc \in {"idle", "returned"}
    /\ IF tracker.completed
       THEN /\ run' = [NoRun EXCEPT !.pc = "returned"]
            /\ th' = [th EXCEPT !.polled = <<>>, !.rounds = 0, !.err = None]
       ELSE /\ th.fetches < MaxRunPolls
            /\ run' = [NoRun EXCEPT !.pc = "fetching"]
            /\ th' = [th EXCEPT !.polled = <<>>, !.rounds = 0, !.err = None,
                                !.fetches = @ + 1]
    /\ UNCHANGED <<tracker, add>>

\* Tracker.get_order_status, lines 95-98, raises: the exception leaves run
GetOrderStatusRaises ==
    /\ InTracker
    /\ run.pc = "fetching"
    /\ run' = [run EXCEPT !.pc = "raised"]
    /\ th' = [th EXCEPT !.err = "fetch"]
    /\ UNCHANGED <<tracker, add>>

\* Tracker.run, lines 108-126: get_order_status returns document st
GetOrderStatus(st) ==
    /\ InTracker
    /\ run.pc = "fetching"
    /\ LET nth == [th EXCEPT
                     !.polled = Append(@, st),
                     !.cur = @ + 1,
                     !.terminal_seen = @ \/ st.ui_status \in TerminalStatuses]
       IN
       IF MessageChanged(st.message, run.last_msg)
       THEN LET rth == [nth EXCEPT !.rounds = @ + 1,
                                   !.round_len = Len(tracker.channels),
                                   !.round_got = {}, !.round_failed = 0]
            IN
            IF Len(tracker.channels) = 0
            THEN EndRunIteration([run EXCEPT !.last_msg = st.message],
                                 tracker.channels, st, rth)
            ELSE \* slack.post_message: the first Channel.post_message awaits
                 /\ run' = [run EXCEPT !.pc = "posting", !.idx = 1]
                 /\ tracker' = [tracker EXCEPT !.current_state = st]
                 /\ th' = rth
       ELSE EndRunIteration(run, tracker.channels, st, nth)
    /\ UNCHANGED add

\* Channel.post_message, lines 63-79, returns or raises for the channel the
\* round of run is at; slack.post_message, lines 120-121: the list iterator
\* goes on while there is an element at the next position
RunPostReturns(outcome) ==
    /\ InTracker
    /\ run.pc = "posting"
    /\ LET chs == WithToken(tracker.channels, run.idx, outcome) IN
       CASE outcome = "ok" ->
              LET nth == [th EXCEPT
                            !.round_got = @ \cup {run.idx},
                            !.delivered[run.idx] =
                                Append(@, [doc |-> th.cur, by |-> 0])]
              IN
              IF run.idx < Len(chs)
              THEN /\ run' = [run EXCEPT !.idx = @ + 1]
                   /\ tracker' = [tracker EXCEPT !.channels = chs]
                   /\ th' = nth
              ELSE EndRunIteration(
                       [run EXCEPT !.last_msg = tracker.current_state.message],
                       chs, tracker.current_state, nth)
         [] outcome = "not_in_channel" ->
              /\ run' = [run EXCEPT !.pc = "joining"]
              /\ tracker' = [tracker EXCEPT !.channels = chs]
              /\ UNCHANGED th
         [] OTHER ->
              /\ run' = [run EXCEPT !.pc = "raised"]
              /\ tracker' = [tracker EXCEPT !.channels = chs]
              /\ th' = [th EXCEPT !.err = "post", !.round_failed = run.idx]
    /\ UNCHANGED add

\* Channel.join, lines 44-54, returns or raises; Channel.post_message,
\* line 77: the message is posted again, by a call of post_message within
\* post_message
RunJoinReturns(ok) ==
    /\ InTracker
    /\ run.pc = "joining"
    /\ IF ok
       THEN /\ run' = [run EXCEPT !.pc = "posting"]
            /\ UNCHANGED th
       ELSE /\ run' = [run EXCEPT !.pc = "raised"]
            /\ th' = [th EXCEPT !.err = "join", !.round_failed = run.idx]
    /\ UNCHANGED <<tracker, add>>

\* Tracker.run, line 126 then lines 106-108: the sleep ends
RunSleep ==
    /\ InTracker
    /\ run.pc = "sleeping"
    /\ IF tracker.completed
       THEN /\ run' = [run EXCEPT !.pc = "returned"]
            /\ UNCHANGED th
       ELSE /\ th.fetches < MaxRunPolls
            /\ run' = [run EXCEPT !.pc = "fetching"]
            /\ th' = [th EXCEPT !.fetches = @ + 1]
    /\ UNCHANGED <<tracker, add>>

\* AddChannel without the comparison of lines 49-51: the channel is always
\* appended
AddChannelNoTest(a, id) ==
    /\ InTracker
    /\ tracker.made
    /\ add[a].pc = "new"
    /\ \A b \in AddCalls : b < a => add[b].pc # "new"
    /\ IF FALSE
       THEN /\ add' = [add EXCEPT ![a].pc = "done"]
            /\ UNCHANGED tracker
       ELSE /\ tracker' = [tracker EXCEPT !.channels = Append(@, Channel(id))]
            /\ IF tracker.current_state = NoState
               THEN add' = [add EXCEPT ![a].pc = "done"]
               ELSE add' = [add EXCEPT ![a] =
                       [pc |-> "posting", idx |-> Len(tracker.channels) + 1,
                        state |-> tracker.current_state,
                        doc |-> th.cur]]
    /\ th' = [th EXCEPT
          !.added = @ \cup {id},
          !.adds = Append(@,
              [call |-> a, id |-> id,
               present |-> id \in Range(ChannelIdsOf(tracker.channels)),
               pos |-> IF Len(tracker'.channels) > Len(tracker.channels)
                       THEN Len(tracker'.channels) ELSE 0]),
          !.delivered = IF Len(tracker'.channels) > Len(tracker.channels)
                        THEN Append(@, <<>>) ELSE @]
    /\ UNCHANGED run

\* Tracker.add_channel, lines 44-57, up to the await of slack.post_message
AddChannel(a, id) ==
    /\ InTracker
    /\ tracker.made
    /\ add[a].pc = "new"
    /\ \A b \in AddCalls : b < a => add[b].pc # "new"
    /\ IF \E i \in 1..Len(tracker.channels) :
             ChannelEq(Channel(id), tracker.channels[i])
       THEN /\ add' = [add EXCEPT ![a].pc = "done"]
            /\ UNCHANGED tracker
       ELSE /\ tracker' = [tracker EXCEPT !.channels = Append(@, Channel(id))]
            /\ IF tracker.current_state = NoState
               THEN add' = [add EXCEPT ![a].pc = "done"]
               ELSE add' = [add EXCEPT ![a] =
                       [pc |-> "posting", idx |-> Len(tracker.channels) + 1,
                        state |-> tracker.current_state,
                        doc |-> th.cur]]
    /\ th' = [th EXCEPT
          !.added = @ \cup {id},
          !.adds = Append(@,
              [call |-> a, id |-> id,
               present |-> id \in Range(ChannelIdsOf(tracker.channels)),
               pos |-> IF Len(tracker'.channels) > Len(tracker.channels)
                       THEN Len(tracker'.channels) ELSE 0]),
          !.delivered = IF Len(tracker'.channels) > Len(tracker.channels)
                        THEN Append(@, <<>>) ELSE @]
    /\ UNCHANGED run

\* Channel.post_message returns or raises for the channel add_channel
\* appended; slack.post_message([chan], ...) then ends
AddPostReturns(a, outcome) ==
    /\ InTracker
    /\ add[a].pc = "posting"
    /\ tracker' = [tracker EXCEPT
          !.channels = WithToken(@, add[a].idx, outcome)]
    /\ CASE outcome = "ok" ->
              /\ add' = [add EXCEPT ![a] = [NoAdd EXCEPT !.pc = "done"]]
              /\ th' = [th EXCEPT
                    !.caught = @ \cup {add[a].idx},
                    !.delivered[add[a].idx] =
                        Append(@, [doc |-> add[a].doc, by |-> a])]
         [] outcome = "not_in_channel" ->
              /\ add' = [add EXCEPT ![a].pc = "joining"]
              /\ UNCHANGED th
         [] OTHER ->
              /\ add' = [add EXCEPT ![a] = [NoAdd EXCEPT !.pc = "raised"]]
              /\ UNCHANGED th
    /\ UNCHANGED run

\* Channel.join returns or raises within add_channel
AddJoinReturns(a, ok) ==
    /\ InTracker
    /\ add[a].pc = "joining"
    /\ add' = [add EXCEPT ![a] =
          IF ok THEN [@ EXCEPT !.pc = "posting"]
                ELSE [NoAdd EXCEPT !.pc = "raised"]]
    /\ UNCHANGED <<tracker, run, th>>

\* ------------------------------------------------------------ specification
\* the sequences of at most n elements of S
SeqsUpTo(S, n) == UNION {[1..k -> S] : k \in 0..n}

Next ==
    \/ \E t \in Tasks, url \in Urls, ch \in SlackChannels : OnSlackEvent(t, url, ch)
    \/ \E t \in Tasks, url \in Urls, ch \in SlackChannels : StartTracking(t, url, ch)
    \/ \E t \in Tasks, ok \in BOOLEAN : Resolve(t, ok)
    \/ \E t \in Tasks : FetchFails(t)
    \/ \E t \in Tasks, st \in States : Fetch(t, st)
    \/ \E t \in Tasks : PostFails(t)
    \/ \E t \in Tasks : Post(t)
    \/ \E t \in Tasks : Sleep(t)
    \/ \E t \in Tasks : Close(t)
    \/ \E ids \in SeqsUpTo(ChannelIds, MaxInitChannels) : TrackerInit(ids)
    \/ Run
    \/ GetOrderStatusRaises
    \/ \E st \in States : GetOrderStatus(st)
    \/ \E o \in PostOutcomes : RunPostReturns(o)
    \/ \E ok \in BOOLEAN : RunJoinReturns(ok)
    \/ RunSleep
    \/ \E a \in AddCalls, id \in ChannelIds : AddChannel(a, id)
    \/ \E a \in AddCalls, o \in PostOutcomes : AddPostReturns(a, o)
    \/ \E a \in AddCalls, ok \in BOOLEAN : AddJoinReturns(a, ok)

Spec == Init /\ [][Next]_vars

\* The event loop resumes a coroutine whose awaited response or sleep has
\* come, and every request is answered (or fails) in the end: each step of
\* a started coroutine is taken eventually.  What the chat service answers
\* is not constrained.
Fairness ==
    /\ WF_vars(\E o \in PostOutcomes : RunPostReturns(o))
    /\ WF_vars(\E ok \in BOOLEAN : RunJoinReturns(ok))
    /\ \A a \in AddCalls :
          /\ WF_vars(\E o \in PostOutcomes : AddPostReturns(a, o))
          /\ WF_vars(\E ok \in BOOLEAN : AddJoinReturns(a, ok))

FairSpec == Spec /\ Fairness

\* ------------------------------------------------------------ the formatter alone
\* format_slack_status_update is called with any document of the API
FormatInit ==
    /\ InitProgram
    /\ fmt \in {[pc |-> "called", doc |-> d, out |-> NoFormat] :
                   d \in DeliverooStates}

\* format_slack_status_update, line 63: the assert fails
FormatRaises ==
    /\ fmt.pc = "called"
    /\ fmt.doc.included.type # "order"
    /\ fmt' = [fmt EXCEPT !.pc = "raised"]
    /\ UNCHANGED <<appvars, trkvars>>

\* format_slack_status_update returns
FormatReturns ==
    /\ fmt.pc = "called"
    /\ fmt.doc.included.type = "order"
    /\ fmt' = [fmt EXCEPT !.pc = "returned",
                          !.out = format_slack_status_update(fmt.doc)]
    /\ UNCHANGED <<appvars, trkvars>>

FormatNext == FormatRaises \/ FormatReturns

FormatSpec == FormatInit /\ [][FormatNext]_vars

\* ------------------------------------------------------------ claims
\* the tasks that are tracking url: started, and not ended
LiveTrackers(url) ==
    {t \in Tasks :
        task[t].pc \notin {"new", "scheduled", "done"} /\ task[t].rooit_url = url}

\* C1: at every instant there is at most one live tracker per order key:
\* a url is in the registry exactly while one task tracks it, that task is
\* the one that inserted the entry, and no second task tracks the url however
\* the mentions interleave with the awaits of the first.
OneTrackerPerOrder ==
    \A url \in Urls :
        /\ Cardinality(LiveTrackers(url)) <= 1
        /\ url \in DOMAIN orders_being_tracked <=> LiveTrackers(url) # {}
        /\ url \in DOMAIN orders_being_tracked => owner[url] \in LiveTrackers(url)

\* C1, a reachable case: a mention was merged while the tracker is suspended in the
\* post of a delivery round that began without it
MergedDuringPost ==
    \E t \in Tasks :
        /\ task[t].pc = "posting"
        /\ orders_being_tracked[task[t].rooit_url] # h[t].round_dests
        /\ \E u \in Tasks : u # t /\ task[u].pc = "done"

\* C2: the destinations of a tracker are the union of the destinations of
\* the mentions it served: the registered set of app.py holds exactly the
\* channels passed to start_tracking since the entry was made, and the list
\* of a Tracker holds the constructor's channels and every channel given to
\* add_channel, none of them added a second time.
DestinationsAreUnion ==
    /\ \A url \in DOMAIN orders_being_tracked :
          orders_being_tracked[url] = h[owner[url]].mentioned
    /\ LET ids == ChannelIdsOf(tracker.channels) IN
       /\ Range(ids) = Range(th.init) \cup th.added
       /\ \A id \in ChannelIds :
             Count(id, ids) = IF id \in Range(th.init) THEN Count(id, th.init)
                              ELSE IF id \in th.added THEN 1 ELSE 0

\* C2, a reachable case: a tracker between two polls whose set holds the channels of
\* several mentions
UnionOfMentions ==
    \E t \in Tasks :
        /\ task[t].pc = "sleeping"
        /\ orders_being_tracked[task[t].rooit_url] = SlackChannels
        /\ h[t].mentioned = SlackChannels

\* the polls among pl whose message differs from the message of the poll
\* before (from None for the first)
NumChanges(pl) ==
    Cardinality({i \in 1..Len(pl) :
        pl[i].message # (IF i = 1 THEN None ELSE pl[i - 1].message)})

\* C3: in a polling loop, the number of delivery rounds begun is the number
\* of polls whose message differs from the message of the poll before: the
\* first poll begins a round, a poll with the same message begins none, a
\* poll with another message begins exactly one, whatever the status code.
RoundPerMessageChange ==
    /\ \A t \in Tasks : h[t].rounds = NumChanges(h[t].polled)
    /\ th.rounds = NumChanges(th.polled)

\* C3, a reachable case: three polls, the second with the message of the first, the
\* third with another message and the status of the second: two rounds
SameThenChanged ==
    \E t \in Tasks :
        /\ Len(h[t].polled) = 3
        /\ h[t].polled[1].message = h[t].polled[2].message
        /\ h[t].polled[2].message # h[t].polled[3].message
        /\ h[t].polled[2].ui_status = h[t].polled[3].ui_status
        /\ h[t].rounds = 2
        /\ task[t].pc = "sleeping"

\* C4: a channel merged into a live tracker after a poll has been posted
\* the current status when the merging call is over.
CatchUpOnMerge == \A t \in Tasks : h[t].unserved = {}

NoMergeAfterTerminal == \A t \in Tasks : h[t].merged_late = {}

\* C7: in a delivery round where the post to one destination failed, every
\* other destination of the round was posted the message.
FailedPostSparesOthers ==
    /\ \A t \in Tasks :
          h[t].round_failed # None =>
              h[t].round_dests \ {h[t].round_failed} \subseteq h[t].round_got
    /\ th.round_failed # 0 =>
          (1..th.round_len) \ {th.round_failed} \subseteq th.round_got

\* C8: a failed delivery does not end the polling loop: no tracker is ended
\* by the exception of a post.
FailedPostKeepsPolling ==
    /\ \A t \in Tasks : err[t] # "post"
    /\ th.err \notin {"post", "join"}

\* C9: a failed fetch does not end the tracker: no tracker is ended by the
\* exception of a fetch.
FailedFetchKeepsPolling ==
    /\ \A t \in Tasks : err[t] # "fetch"
    /\ th.err # "fetch"

\* C10: a tracker whose get_tracking_url failed has issued no fetch and
\* begun no delivery round, has called get_tracking_url once, and once its
\* task is over the registry holds no entry of it.
ResolveFailureEndsTracker ==
    \A t \in Tasks :
        err[t] = "resolve" =>
            /\ task[t].pc \in {"closing", "done"}
            /\ h[t].fetches = 0
            /\ h[t].rounds = 0
            /\ h[t].resolves <= 1
            /\ task[t].pc = "done" =>
                  \A url \in DOMAIN owner : owner[url] # t

\* C10, a reachable case: the resolution failed while a second mention was merged,
\* the task is over and the url is not registered
ResolveFailedAndGone ==
    \E t, u \in Tasks :
        /\ t # u
        /\ err[t] = "resolve"
        /\ task[t].pc = "done"
        /\ task[u].pc = "done"
        /\ err[u] = None
        /\ orders_being_tracked = <<>>

\* C11: a delivery round iterates a snapshot of the destinations: a merge
\* made while the round is suspended in a post neither ends the round with
\* an error (no task is ended by the RuntimeError of the set iterator) nor
\* changes its recipients (the round posts only to destinations that were
\* present when it began).
RoundIteratesSnapshot ==
    /\ \A t \in Tasks : err[t] # "iteration"
    /\ \A t \in Tasks : h[t].round_got \subseteq h[t].round_dests
    /\ th.round_got \subseteq 1..th.round_len

\* the last poll of pl returned a message that differs from the message of
\* the poll before, the last one notified
LastPollChanged(pl) ==
    /\ pl # <<>>
    /\ pl[Len(pl)].message # (IF Len(pl) = 1 THEN None ELSE pl[Len(pl) - 1].message)

\* C12: when a poll returned a terminal status with a message that differs
\* from the last notified one, the tracker that has left its loop (its key
\* still registered) has posted that message to every destination of the
\* round, except one whose own post failed.
FinalRoundBeforeEnd ==
    /\ \A t \in Tasks :
          (/\ task[t].pc = "closing"
           /\ HasTerminal(h[t].polled)
           /\ LastPollChanged(h[t].polled))
          => h[t].round_dests \ {h[t].round_failed} \subseteq h[t].round_got
    /\ (/\ run.pc \in {"returned", "raised"}
        /\ HasTerminal(th.polled)
        /\ LastPollChanged(th.polled))
       => (1..th.round_len) \ {th.round_failed} \subseteq th.round_got

NoDuplicateChannels ==
    \A i, j \in 1..Len(tracker.channels) :
        ChannelEq(tracker.channels[i], tracker.channels[j]) => i = j

\* the messages add_channel call a has posted: position in the list and rank
\* among the messages that position received
DeliveriesBy(a) ==
    {pn \in (1..Len(th.delivered)) \X (1..(MaxRunPolls + MaxAdds)) :
        /\ pn[2] <= Len(th.delivered[pn[1]])
        /\ th.delivered[pn[1]][pn[2]].by = a}

\* C15: an add_channel call posts at most one message, and only to the
\* channel it appended; a call given a channel equal to one in the list
\* appends nothing, posts nothing and awaits nothing; the list is the
\* constructor's channels followed by the channels appended, in order.
CatchUpOnlyToNew ==
    /\ \A k \in 1..Len(th.adds) :
          LET c == th.adds[k] IN
          /\ Cardinality(DeliveriesBy(c.call)) <= 1
          /\ \A pn \in DeliveriesBy(c.call) : pn[1] = c.pos /\ ~c.present
          /\ c.present =>
                /\ c.pos = 0
                /\ DeliveriesBy(c.call) = {}
                /\ add[c.call].pc = "done"
          /\ ~c.present =>
                /\ c.pos > Len(th.init)
                /\ ChannelId(tracker.channels[c.pos]) = c.id
    /\ Len(tracker.channels) =
          Len(th.init) + Cardinality({k \in 1..Len(th.adds) : th.adds[k].pos # 0})
    /\ \A i \in 1..Len(th.init) : ChannelId(tracker.channels[i]) = th.init[i]

\* C15, a reachable case: add_channel appended a channel to a tracker that
\* had one, and posted the current status to it, while the round of that
\* status had posted to the first channel
CaughtUpAlone ==
    /\ Len(th.init) = 1
    /\ Len(tracker.channels) = 2
    /\ \E a \in AddCalls : DeliveriesBy(a) = {<<2, 1>>} /\ add[a].pc = "done"
    /\ Len(th.delivered[1]) = 1
    /\ th.delivered[1][1].by = 0

\* C16: the formatter chooses by a fixed priority.  For a FAILED status the
\* text is the alert with the restaurant name and the status message,
\* followed by the short url, with or without an ETA; for another status
\* with no ETA it is the one-line notice naming the restaurant; for every
\* other document it is three lines: restaurant and message, ETA, short url.
FormatterPriority ==
    fmt.pc = "returned" =>
        LET a == fmt.doc.attributes
            o == fmt.doc.included
            b == fmt.out.block
        IN
        /\ fmt.out.text = b[1]
        /\ IF a.ui_status = "FAILED"
           THEN /\ Len(b) = 2
                /\ b[1][1] = "@here :rotating_light: The order from *"
                /\ b[1][2] = o.restaurant_name
                /\ b[1][3] = "* has *FAILED* _("
                /\ b[1][4] = a.message
                /\ b[2] = <<o.sharing_short_url>>
           ELSE IF "eta_message" \notin DOMAIN a
           THEN /\ Len(b) = 1
                /\ b[1] = <<"*", o.restaurant_name,
                            "* is here, @hungry people :bowl_with_spoon: !">>
           ELSE /\ Len(b) = 3
                /\ b[1] = <<"*", o.restaurant_name, "*: ", a.message>>
                /\ b[2] = <<"*ETA*: ", a.eta_message>>
                /\ b[3] = <<o.sharing_short_url>>

\* C16, a reachable case: a FAILED document without ETA was formatted
FailedWithoutEta ==
    /\ fmt.pc = "returned"
    /\ fmt.doc.attributes.ui_status = "FAILED"
    /\ "eta_message" \notin DOMAIN fmt.doc.attributes
    /\ fmt.out.block # <<>>

\* C17: handling a mention does not wait for the order: whenever the task
\* of a mention has begun to run (registry bookkeeping, resolution, polls,
\* deliveries, termination), on_slack_event has already returned the
\* response for that mention.
ResponseBeforeTracking ==
    \A t \in Tasks : task[t].pc \notin {"new", "scheduled"} => response[t] = ""

\* C17, a reachable case: the response of a second mention was returned
\* while its task has not run and the tracker of the first awaits a fetch
RespondedBeforeStart ==
    \E t, u \in Tasks :
        /\ task[t].pc = "fetching"
        /\ task[u].pc = "scheduled"
        /\ response[u] = ""

\* the suspension points of a running tracker task
Tracking == {"resolving", "fetching", "posting", "sleeping", "closing"}

\* C18: a tracker task that has ended has no entry in the registry: every
\* entry belongs to a running tracker task of that url, no entry belongs to
\* an ended task, and a tracker started by a mention that found no entry
\* starts from scratch (nothing polled, nothing notified, only its own
\* channel).
EndedTrackerHasNoEntry ==
    /\ \A url \in DOMAIN orders_being_tracked :
          /\ url \in DOMAIN owner
          /\ task[owner[url]].pc \in Tracking
          /\ task[owner[url]].rooit_url = url
    /\ \A t \in Tasks :
          task[t].pc \in {"new", "scheduled", "done"} =>
              /\ \A url \in DOMAIN owner : owner[url] # t
              /\ h[t] = NoHistory
    /\ \A t \in Tasks :
          task[t].pc = "resolving" =>
              /\ task[t].last_msg = None
              /\ h[t].polled = <<>>
              /\ h[t].fetches = 0
              /\ h[t].rounds = 0
              /\ task[t].slack_channel \in orders_being_tracked[task[t].rooit_url]
              /\ orders_being_tracked[task[t].rooit_url] = h[t].mentioned

\* C18, a reachable case: a tracker was ended by a failed fetch, and the
\* next mention of the url started a tracker that has polled and begun its
\* first round
FreshTrackerAfterFailure ==
    \E t, u \in Tasks :
        /\ t < u
        /\ task[t].pc = "done"
        /\ err[t] = "fetch"
        /\ task[u].pc = "posting"
        /\ h[u].rounds = 1
        /\ Len(h[u].polled) = 1
        /\ owner[task[u].rooit_url] = u

\* C19: the messages posted to one channel of a Tracker follow the order of
\* the fetches and none is posted twice: along the messages a channel
\* received, the ordinal of the document grows strictly, whether a round or
\* add_channel posted them.
DeliveredInFetchOrder ==
    \A p \in 1..Len(th.delivered) :
        \A i, j \in 1..Len(th.delivered[p]) :
            i < j => th.delivered[p][i].doc < th.delivered[p][j].doc

\* C20: Channel.post_message always terminates: a round of run that awaits
\* the post to a channel leaves that post (it goes on to the next channel,
\* ends, or raises), and an add_channel call that awaits its post ends,
\* whatever the chat service answers.
PostMessageTerminates ==
    /\ \A i \in 1..(MaxInitChannels + MaxAdds) :
          (run.pc \in {"posting", "joining"} /\ run.idx = i)
              ~> ~(run.pc \in {"posting", "joining"} /\ run.idx = i)
    /\ \A a \in AddCalls :
          (add[a].pc \in {"posting", "joining"})
              ~> (add[a].pc \in {"done", "raised"})

====
